---- MODULE Spec2Model ----
(***************************************************************************)
(* Model of package templatex (github.com/vedranvuk/templatex): the        *)
(* Namespaces registry, its recursive directory walkers parseDir and       *)
(* parseDirFS, and its query surface.                                      *)
(*                                                                         *)
(* Names are sequences of characters and paths sequences of segments, so   *)
(* that path.Clean, path.Join and filepath.Match are computed.             *)
(***************************************************************************)
EXTENDS Integers, Sequences, FiniteSets, TLC

VARIABLES
    dirs,        \* directories of the template tree, as sequences of names below the tree's top
    files,       \* files of the template tree: records [dir, name, kind]
    phase,       \* "setup" while the tree is being laid out, "run" once a registry exists
    namespaces,  \* ns.namespaces: namespace path -> pointer to a template set
    heap,        \* the template sets: pointer -> [tmpls, name, escaped]
    ret,         \* what the last call returned and wrote
    built,       \* the last ParseRoot or ParseRootFS call: [op, root, listable, err, again]
    mu,          \* ns.mu: the thread that holds it, or 0
    pc,          \* per thread: where it is in its call
    call,        \* per thread: the call it is in
    pending      \* per thread: the table writes its walk has still to make

tree == <<dirs, files>>
threads == <<mu, pc, call, pending>>
vars == <<dirs, files, phase, namespaces, heap, ret, built, mu, pc, call, pending>>

----------------------------------------------------------------------------
(* Bounds of the model. *)

MaxFiles == 2     \* files laid out in the tree

----------------------------------------------------------------------------
(* Strings and the path functions of the Go library that the walkers call. *)
(* A name is a sequence of characters.  A path string is held as the       *)
(* sequence of its segments, strings.Split(p, "/"): "/" is <<E, E>>, "/a"  *)
(* is <<E, "a">>, "t/" is <<"t", E>>, "//a" is <<E, E, "a">>, the empty    *)
(* string is <<E>>; joining two strings with a "/" between them is the     *)
(* concatenation of their segment sequences.                               *)

DOT == "."
E == <<>>                          \* the empty segment
Dot == <<DOT>>                     \* the segment "."
DotDot == <<DOT, DOT>>             \* the segment ".."
EmptyStr == <<E>>                  \* the string ""
ROOT == <<E, E>>                   \* the string "/"

RECURSIVE CleanSegs(_, _, _)
\* the loop of path.Clean: "." and empty segments dropped, ".." removing the
\* segment before it (or itself at the root of a rooted path)
CleanSegs(segs, stack, rooted) ==
    IF Len(segs) = 0 THEN stack
    ELSE LET s == Head(segs)
             rest == Tail(segs)
         IN IF s = E \/ s = Dot THEN CleanSegs(rest, stack, rooted)
            ELSE IF s = DotDot
                 THEN IF Len(stack) > 0 /\ stack[Len(stack)] # DotDot
                      THEN CleanSegs(rest, SubSeq(stack, 1, Len(stack) - 1), rooted)
                      ELSE IF rooted THEN CleanSegs(rest, stack, rooted)
                      ELSE CleanSegs(rest, Append(stack, s), rooted)
            ELSE CleanSegs(rest, Append(stack, s), rooted)

\* a path that path.Clean returns as it is: no empty, "." or ".." segment
\* but the empty segment before the "/" that roots it
IsClean(p) ==
    \A i \in 1..Len(p) : p[i] \notin {E, Dot, DotDot} \/ (i = 1 /\ p[i] = E /\ Len(p) > 1)

\* path.Clean (and filepath.Clean, the separator being "/")
Clean(p) ==
    IF p = EmptyStr THEN <<Dot>>
    ELSE IF IsClean(p) THEN p
    ELSE LET rooted == p[1] = E
             body == CleanSegs(p, <<>>, rooted)
         IN IF rooted THEN (IF Len(body) = 0 THEN ROOT ELSE <<E>> \o body)
            ELSE IF Len(body) = 0 THEN <<Dot>> ELSE body

\* the bug of joining without cleaning: "/" + "/" + "a"
JoinRaw(a, b) == a \o b

\* path.Join(a, b) (and filepath.Join): the non-empty elements joined by "/", cleaned
Join(a, b) ==
    IF a = EmptyStr /\ b = EmptyStr THEN EmptyStr
    ELSE IF a = EmptyStr THEN Clean(b)
    ELSE IF b = EmptyStr THEN Clean(a)
    ELSE Clean(a \o b)

\* filepath.Base of a cleaned, non-empty path: its last segment
Base(p) == p[Len(p)]

HasSuffix(s, suf) ==
    /\ Len(s) >= Len(suf)
    /\ SubSeq(s, Len(s) - Len(suf) + 1, Len(s)) = suf

\* the bug of taking every file for a template file
MatchAny(ext, name) == TRUE

\* filepath.Match("*"+ext, name) / path.Match: for names and extensions
\* without pattern characters, "*" takes any prefix and the rest is literal
Match(ext, name) == HasSuffix(name, ext)

----------------------------------------------------------------------------
(* Registry configuration, as the tests construct it: New("index", ".html"). *)

index == <<"i">>
ext == <<DOT, "x">>
IndexName == index \o ext          \* ns.index+ns.ext

----------------------------------------------------------------------------
(* The template tree on disk. *)

TOP == <<"t">>                     \* the name of the tree's top directory, below the working directory
\* the subdirectories that are laid out, in this order: a, b, a/a
DirOrder == << <<<<"a">>>>, <<<<"b">>>>, <<<<"a">>, <<"a">>>> >>
FileH == <<"h">> \o ext            \* a template file that is not the index file
FileI == IndexName                 \* the index file
FileN == <<"n", DOT, "y">>         \* a file of another extension
\* ReadDir returns entries sorted by name
NameOrder == << <<"a">>, <<"b">>, FileH, FileI, FileN >>
FileNames == {FileH, FileI, FileN}
\* what a file holds: a top-level body, only a {{define "c"}}, both
\* (a body with a {{block "c"}}), or text the engine rejects
Kinds == {"body", "define", "block", "bad"}
BlockName == <<"c">>

DirExists(d) == d \in dirs
IsFile(d, n) == \E f \in files : f.dir = d /\ f.name = n
KindOf(d, n) == (CHOOSE f \in files : f.dir = d /\ f.name = n).kind

\* the entries of directory d in name order: [name, isDir]
Entries(d) ==
    LET present(n) == Append(d, n) \in dirs \/ IsFile(d, n)
        names == SelectSeq(NameOrder, present)
    IN [i \in 1..Len(names) |-> [name |-> names[i], isDir |-> Append(d, names[i]) \in dirs]]

\* the directory of the tree that an operating-system path names, or NoDir:
\* the tree lies at "t" below the working directory, and the system skips
\* empty and "." segments
NoDir == << <<"?">> >>
OsDir(p) ==
    LET segs == SelectSeq(p, LAMBDA s : s # E /\ s # Dot)
    IN IF p[1] # E /\ Len(segs) > 0 /\ segs[1] = TOP /\ Tail(segs) \in dirs
       THEN Tail(segs) ELSE NoDir

\* the directory that a name names in an fs.FS mounted at the tree's top:
\* "." is the top, a rooted name or one with "." or ".." elements is invalid
FsDir(p) ==
    IF p = <<Dot>> THEN <<>>
    ELSE IF p \in dirs THEN p ELSE NoDir

----------------------------------------------------------------------------
(* The template engine (html/template), as far as the walkers use it.  A   *)
(* template set is [tmpls, name, escaped]: its defined templates by name,  *)
(* the name of the template the set was created as, and whether it was     *)
(* executed.  A definition is <<dir, file, kind, part>>, the empty tree    *)
(* (a body of white space) is <<>>.                                        *)

EmptyTree == <<>>
NoTmpls == [n \in {} |-> EmptyTree]

\* parse.Parse(name, text): the trees a file's text defines
Trees(tname, d, fname, kind) ==
    LET body == <<d, fname, kind, "body">>
        blk == <<d, fname, kind, "c">>
    IN CASE kind = "body" -> [n \in {tname} |-> body]
         [] kind = "define" -> [n \in {tname, BlockName} |-> IF n = BlockName THEN blk ELSE EmptyTree]
         [] OTHER -> [n \in {tname, BlockName} |-> IF n = BlockName THEN blk ELSE body]

\* Template.AddParseTree over all trees: a tree replaces the template of its
\* name, but an empty tree does not replace an existing template
AddTrees(tmpls, trees) ==
    [n \in DOMAIN tmpls \cup DOMAIN trees |->
        IF n \in DOMAIN trees /\ ~(n \in DOMAIN tmpls /\ trees[n] = EmptyTree)
        THEN trees[n] ELSE tmpls[n]]

NextPtr(h) == IF DOMAIN h = {} THEN 1 ELSE 1 + CHOOSE m \in DOMAIN h : \A k \in DOMAIN h : k <= m

\* the bug of seeding a build with the set already registered as "/"
ReuseRootTemplate(h, nss, name) ==
    IF ROOT \in DOMAIN nss
    THEN [heap |-> h, ptr |-> nss[ROOT]]
    ELSE [heap |-> [p \in DOMAIN h \cup {NextPtr(h)} |->
                      IF p \in DOMAIN h THEN h[p]
                      ELSE [tmpls |-> NoTmpls, name |-> name, escaped |-> FALSE]],
          ptr |-> NextPtr(h)]

\* template.New(name): a fresh, empty set
NewTemplate(h, nss, name) ==
    LET new == NextPtr(h)
    IN [heap |-> [p \in DOMAIN h \cup {new} |->
                    IF p \in DOMAIN h THEN h[p]
                    ELSE [tmpls |-> NoTmpls, name |-> name, escaped |-> FALSE]],
        ptr |-> new]

\* the bug of handing the subdirectory an empty set
CloneEmpty(h, ptr) ==
    [heap |-> [p \in DOMAIN h \cup {NextPtr(h)} |->
                 IF p \in DOMAIN h THEN h[p] ELSE [h[ptr] EXCEPT !.tmpls = NoTmpls]],
     ptr |-> NextPtr(h), err |-> h[ptr].escaped]

\* the bug of handing the subdirectory the parent's own set
CloneShared(h, ptr) == [heap |-> h, ptr |-> ptr, err |-> h[ptr].escaped]

\* Template.Clone: an independent copy; fails once the set has executed
Clone(h, ptr) ==
    IF h[ptr].escaped THEN [heap |-> h, ptr |-> ptr, err |-> TRUE]
    ELSE LET new == NextPtr(h)
         IN [heap |-> [p \in DOMAIN h \cup {new} |->
                         IF p \in DOMAIN h THEN h[p] ELSE h[ptr]],
             ptr |-> new, err |-> FALSE]

\* Template.Parse of a file's text into the set at ptr, under template name
\* tname; fails on text the engine rejects and once the set has executed
ParseText(h, ptr, tname, d, fname, kind) ==
    IF kind = "bad" \/ h[ptr].escaped THEN [heap |-> h, err |-> TRUE]
    ELSE [heap |-> [h EXCEPT ![ptr].tmpls = AddTrees(@, Trees(tname, d, fname, kind))],
          err |-> FALSE]

----------------------------------------------------------------------------
(* The walkers.  A walk threads st = [heap, ns, err, log, trace]: the      *)
(* template sets, the namespace table it writes into, the error it         *)
(* returns, the table writes it made, in order, and what it did, in order: *)
(* <<"ReadDir", d>> for a directory it opened and listed (d is NoDir when  *)
(* the path names none), <<"Parse", d, name>> for a file it handed to the  *)
(* engine, <<"Register", d, nsname>> for a table write.                    *)

\* the bug of keeping the first registration of a path
RegisterOnce(nss, nsname, tmpl) ==
    IF nsname \in DOMAIN nss THEN nss
    ELSE [k \in DOMAIN nss \cup {nsname} |-> IF k = nsname THEN tmpl ELSE nss[k]]

\* the bug of starting a new table at every registration
RegisterAlone(nss, nsname, tmpl) == [k \in {nsname} |-> tmpl]

\* ns.namespaces[nsname] = tmpl
Register(nss, nsname, tmpl) ==
    [k \in DOMAIN nss \cup {nsname} |-> IF k = nsname THEN tmpl ELSE nss[k]]

\* the names of the subdirectories among a directory's entries, in order
Subs(infos) ==
    LET ds == SelectSeq(infos, LAMBDA fi : fi.isDir)
    IN [i \in 1..Len(ds) |-> ds[i].name]

RECURSIVE parseFilesSkipBad(_, _, _, _, _)
\* the bug of going on to the next entry when a file fails to parse
parseFilesSkipBad(h, tr, dir, tmpl, infos) ==
    IF Len(infos) = 0 THEN [heap |-> h, err |-> "ok", trace |-> tr]
    ELSE LET fi == Head(infos)
         IN IF fi.isDir \/ ~Match(ext, fi.name)
            THEN parseFilesSkipBad(h, tr, dir, tmpl, Tail(infos))
            ELSE LET file == Join(dir, <<fi.name>>)
                     p == ParseText(h, tmpl, Base(file), OsDir(dir), Base(file),
                                    KindOf(OsDir(dir), Base(file)))
                 IN parseFilesSkipBad(p.heap, Append(tr, <<"Parse", OsDir(dir), fi.name>>),
                                      dir, tmpl, Tail(infos))

RECURSIVE parseFiles(_, _, _, _, _)
\* the loop over the entries of parseDir: each file that matches "*"+ext is
\* parsed by tmpl.ParseFiles, which names the template filepath.Base(file);
\* tr is the trace of the walk so far
parseFiles(h, tr, dir, tmpl, infos) ==
    IF Len(infos) = 0 THEN [heap |-> h, err |-> "ok", trace |-> tr]
    ELSE LET fi == Head(infos)
         IN IF fi.isDir \/ ~Match(ext, fi.name) THEN parseFiles(h, tr, dir, tmpl, Tail(infos))
            ELSE LET file == Join(dir, <<fi.name>>)
                     p == ParseText(h, tmpl, Base(file), OsDir(dir), Base(file),
                                    KindOf(OsDir(dir), Base(file)))
                     done == Append(tr, <<"Parse", OsDir(dir), fi.name>>)
                 IN IF p.err THEN [heap |-> p.heap, err |-> "ErrParse", trace |-> done]
                    ELSE parseFiles(p.heap, done, dir, tmpl, Tail(infos))

RECURSIVE parseDir(_, _, _, _)
RECURSIVE parseDirSubs(_, _, _, _, _)
\* the loop over subs of parseDir: clone, join the names, recurse
parseDirSubs(st, dir, nsname, tmpl, subs) ==
    IF Len(subs) = 0 THEN st
    ELSE LET filename == Join(dir, <<Head(subs)>>)
             templatename == Join(nsname, <<Head(subs)>>)
             newtemplate == Clone(st.heap, tmpl)
         IN IF newtemplate.err THEN [st EXCEPT !.err = "ErrParse"]
            ELSE LET r == parseDir([st EXCEPT !.heap = newtemplate.heap],
                                   filename, templatename, newtemplate.ptr)
                 IN IF r.err # "ok" THEN r
                    ELSE parseDirSubs(r, dir, nsname, tmpl, Tail(subs))

\* the bug of descending into the subdirectories before the files of the
\* directory are parsed and the directory is registered
parseDirSubsFirst(st, dir, nsname, tmpl) ==
    IF OsDir(dir) = NoDir
    THEN [st EXCEPT !.err = "ErrParse", !.trace = Append(@, <<"ReadDir", NoDir>>)]
    ELSE LET fileinfos == Entries(OsDir(dir))
             s == parseDirSubs([st EXCEPT !.trace = Append(@, <<"ReadDir", OsDir(dir)>>)],
                               dir, nsname, tmpl, Subs(fileinfos))
             p == parseFiles(s.heap, s.trace, dir, tmpl, fileinfos)
         IN IF s.err # "ok" THEN s
            ELSE IF p.err # "ok"
            THEN [s EXCEPT !.heap = p.heap, !.err = p.err, !.trace = p.trace]
            ELSE [heap |-> p.heap,
                  ns |-> Register(s.ns, nsname, tmpl),
                  err |-> "ok",
                  log |-> Append(s.log, <<nsname, tmpl>>),
                  trace |-> Append(p.trace, <<"Register", OsDir(dir), nsname>>)]

\* Namespaces.parseDir
parseDir(st, dir, nsname, tmpl) ==
    IF OsDir(dir) = NoDir
    THEN [st EXCEPT !.err = "ErrParse", !.trace = Append(@, <<"ReadDir", NoDir>>)]
    ELSE LET fileinfos == Entries(OsDir(dir))
             p == parseFiles(st.heap, Append(st.trace, <<"ReadDir", OsDir(dir)>>),
                             dir, tmpl, fileinfos)
         IN IF p.err # "ok"
            THEN [st EXCEPT !.heap = p.heap, !.err = p.err, !.trace = p.trace]
            ELSE parseDirSubs([heap |-> p.heap,
                               ns |-> Register(st.ns, nsname, tmpl),
                               err |-> "ok",
                               log |-> Append(st.log, <<nsname, tmpl>>),
                               trace |-> Append(p.trace, <<"Register", OsDir(dir), nsname>>)],
                              dir, nsname, tmpl, Subs(fileinfos))

RECURSIVE parseFilesFS(_, _, _, _, _)
\* the loop over the entries of parseDirFS: each file that matches "*"+ext
\* is opened, read and parsed by tmpl.Parse, under the name of tmpl itself
parseFilesFS(h, tr, dir, tmpl, infos) ==
    IF Len(infos) = 0 THEN [heap |-> h, err |-> "ok", trace |-> tr]
    ELSE LET fi == Head(infos)
         IN IF fi.isDir \/ ~Match(ext, fi.name)
            THEN parseFilesFS(h, tr, dir, tmpl, Tail(infos))
            ELSE LET file == Join(dir, <<fi.name>>)
                     p == ParseText(h, tmpl, h[tmpl].name, FsDir(dir), Base(file),
                                    KindOf(FsDir(dir), Base(file)))
                     done == Append(tr, <<"Parse", FsDir(dir), fi.name>>)
                 IN IF p.err THEN [heap |-> p.heap, err |-> "ErrParse", trace |-> done]
                    ELSE parseFilesFS(p.heap, done, dir, tmpl, Tail(infos))

RECURSIVE parseDirFS(_, _, _, _, _)
RECURSIVE parseDirFSSubs(_, _, _, _, _, _)
\* the loop over subs of parseDirFS
parseDirFSSubs(st, listable, dir, nsname, tmpl, subs) ==
    IF Len(subs) = 0 THEN st
    ELSE LET filename == Join(dir, <<Head(subs)>>)
             templatename == Join(nsname, <<Head(subs)>>)
             newtemplate == Clone(st.heap, tmpl)
         IN IF newtemplate.err THEN [st EXCEPT !.err = "ErrParse"]
            ELSE LET r == parseDirFS([st EXCEPT !.heap = newtemplate.heap], listable,
                                     filename, templatename, newtemplate.ptr)
                 IN IF r.err # "ok" THEN r
                    ELSE parseDirFSSubs(r, listable, dir, nsname, tmpl, Tail(subs))

\* Namespaces.parseDirFS; listable says whether the files the fs.FS opens
\* are fs.ReadDirFile
parseDirFS(st, listable, dir, nsname, tmpl) ==
    IF FsDir(dir) = NoDir
    THEN [st EXCEPT !.err = "ErrParse", !.trace = Append(@, <<"ReadDir", NoDir>>)]
    ELSE IF ~listable
    THEN [st EXCEPT !.err = "ErrUnsupportedOp", !.trace = Append(@, <<"ReadDir", FsDir(dir)>>)]
    ELSE LET fileinfos == Entries(FsDir(dir))
             p == parseFilesFS(st.heap, Append(st.trace, <<"ReadDir", FsDir(dir)>>),
                               dir, tmpl, fileinfos)
         IN IF p.err # "ok"
            THEN [st EXCEPT !.heap = p.heap, !.err = p.err, !.trace = p.trace]
            ELSE parseDirFSSubs([heap |-> p.heap,
                                 ns |-> Register(st.ns, nsname, tmpl),
                                 err |-> "ok",
                                 log |-> Append(st.log, <<nsname, tmpl>>),
                                 trace |-> Append(p.trace, <<"Register", FsDir(dir), nsname>>)],
                                listable, dir, nsname, tmpl, Subs(fileinfos))

----------------------------------------------------------------------------
(* The registry. *)

RECURSIVE SetToSeq(_)
SetToSeq(S) ==
    IF S = {} THEN <<>>
    ELSE LET x == CHOOSE y \in S : TRUE IN <<x>> \o SetToSeq(S \ {x})

\* The table holds pointers (map[string]*template.Template).  After a call
\* the sets no key points to are garbage, and the pointers are renamed to
\* the position of the first key that holds them, which keeps every alias.
Canon(nss, h) ==
    LET keys == SetToSeq(DOMAIN nss)
        first(p) == CHOOSE i \in 1..Len(keys) :
                        /\ nss[keys[i]] = p
                        /\ \A j \in 1..(i - 1) : nss[keys[j]] # p
    IN [ns |-> [k \in DOMAIN nss |-> first(nss[k])],
        heap |-> [i \in {first(nss[k]) : k \in DOMAIN nss} |-> h[nss[keys[i]]]]]

\* the bug of answering an unregistered path with the root namespace
LookupFallback(nss, path) ==
    IF path \in DOMAIN nss THEN [found |-> TRUE, ptr |-> nss[path]]
    ELSE IF ROOT \in DOMAIN nss THEN [found |-> TRUE, ptr |-> nss[ROOT]]
    ELSE [found |-> FALSE, ptr |-> 0]

\* tt, found := ns.namespaces[path]
Lookup(nss, path) ==
    IF path \in DOMAIN nss THEN [found |-> TRUE, ptr |-> nss[path]]
    ELSE [found |-> FALSE, ptr |-> 0]

\* the templates of every namespace: path -> (template name -> definition)
View(nss, h) == [k \in DOMAIN nss |-> h[nss[k]].tmpls]

NoTable == [k \in {} |-> 0]
NoHeap == [p \in {} |-> 0]
NoRet == [op |-> "none", arg |-> EmptyStr, err |-> "ok", out |-> <<>>, found |-> FALSE, keys |-> {}]
NoBuilt ==
    [op |-> "none", root |-> NoDir, listable |-> TRUE, err |-> "ok", again |-> FALSE,
     trace |-> <<>>]
Builds == {"ParseRoot", "ParseRootFS"}

Threads == {1, 2}
FREE == 0
Idle == [op |-> "none", arg |-> EmptyStr, err |-> "ok", trace |-> <<>>]

\* the root arguments of ParseRoot: "t/", "t/a/..", "t/a", "x"
LocalRoots ==
    { <<TOP, E>>, <<TOP, <<"a">>, DotDot>>, <<TOP, <<"a">>>>, <<<<"x">>>> }

\* the calls of ParseRootFS: roots "." and "./" of an fs.FS whose
\* directories list, and "." of one whose files are no fs.ReadDirFile
FSCalls ==
    { <<TRUE, <<Dot>>>>, <<TRUE, <<Dot, E>>>>, <<FALSE, <<Dot>>>> }

\* the paths queried: "/", "/a", "/a/a", "/a/" and "/missing" ("/m")
QueryPaths ==
    { ROOT, <<E, <<"a">>>>, <<E, <<"a">>, <<"a">>>>, <<E, <<"a">>, E>>, <<E, <<"m">>>> }

InitRegistry ==
    /\ namespaces = NoTable
    /\ heap = NoHeap
    /\ ret = NoRet
    /\ built = NoBuilt
    /\ mu = FREE
    /\ pc = [t \in Threads |-> "idle"]
    /\ call = [t \in Threads |-> Idle]
    /\ pending = [t \in Threads |-> <<>>]

Init ==
    /\ dirs = {<<>>}
    /\ files = {}
    /\ phase = "setup"
    /\ InitRegistry

\* the environment makes the next subdirectory
Mkdir(i) ==
    /\ phase = "setup"
    /\ DirOrder[i] \notin dirs
    /\ \A j \in 1..(i - 1) : DirOrder[j] \in dirs
    /\ dirs' = dirs \cup {DirOrder[i]}
    /\ UNCHANGED <<files, phase, namespaces, heap, ret, built, threads>>

\* the kinds of text each file name is given
KindsOf(n) ==
    IF n = FileH THEN {"body", "bad"}
    ELSE IF n = FileI THEN {"body", "define"}
    ELSE {"body"}

\* the environment writes a file
WriteFile(d, n, k) ==
    /\ phase = "setup"
    /\ Cardinality(files) < MaxFiles
    /\ d \in dirs
    /\ ~IsFile(d, n)
    /\ files' = files \cup {[dir |-> d, name |-> n, kind |-> k]}
    /\ UNCHANGED <<dirs, phase, namespaces, heap, ret, built, threads>>

\* New(index, ext): an empty registry
New ==
    /\ phase = "setup"
    /\ phase' = "run"
    /\ namespaces' = NoTable
    /\ heap' = NoHeap
    /\ ret' = [NoRet EXCEPT !.op = "New"]
    /\ UNCHANGED <<tree, built, threads>>

\* the record of a build call: which walker, the directory its root names,
\* whether the file system lists directories, the error returned, whether
\* the call repeats the call before it, which had succeeded, and what the
\* walk did
Built(op, root, listable, err, trace) ==
    [op |-> op, root |-> root, listable |-> listable, err |-> err,
     again |-> (built.op = op /\ built.root = root /\ built.listable = listable
                /\ built.err = "ok"),
     trace |-> trace]

\* the walk of ParseRoot: from the cleaned root, namespace "/" and a fresh
\* template set named ""
WalkRoot(h, nss, root) ==
    LET t == NewTemplate(h, nss, <<>>)
    IN parseDir([heap |-> t.heap, ns |-> nss, err |-> "ok", log |-> <<>>, trace |-> <<>>],
                Clean(root), ROOT, t.ptr)

\* the walk of ParseRootFS: from a fresh template set named index+ext
WalkRootFS(h, nss, listable, root) ==
    LET t == NewTemplate(h, nss, IndexName)
    IN parseDirFS([heap |-> t.heap, ns |-> nss, err |-> "ok", log |-> <<>>, trace |-> <<>>],
                  listable, Clean(root), ROOT, t.ptr)

\* Namespaces.ParseRoot(root), the whole call under ns.mu
ParseRoot(root) ==
    /\ phase = "run"
    /\ mu = FREE
    /\ LET r == WalkRoot(heap, namespaces, root)
           c == Canon(r.ns, r.heap)
       IN /\ namespaces' = c.ns
          /\ heap' = c.heap
          /\ built' = Built("ParseRoot", OsDir(Clean(root)), TRUE, r.err, r.trace)
          /\ ret' = [NoRet EXCEPT !.op = "ParseRoot", !.err = r.err]
    /\ UNCHANGED <<tree, phase, threads>>

\* Namespaces.ParseRootFS(filesys, root), the whole call under ns.mu
ParseRootFS(listable, root) ==
    /\ phase = "run"
    /\ mu = FREE
    /\ LET r == WalkRootFS(heap, namespaces, listable, root)
           c == Canon(r.ns, r.heap)
       IN /\ namespaces' = c.ns
          /\ heap' = c.heap
          /\ built' = Built("ParseRootFS", FsDir(Clean(root)), listable, r.err, r.trace)
          /\ ret' = [NoRet EXCEPT !.op = "ParseRootFS", !.err = r.err]
    /\ UNCHANGED <<tree, phase, threads>>

\* the result of Namespaces.Namespace(name)
NamespaceRet(nss, h, name) ==
    LET l == Lookup(nss, name)
    IN [NoRet EXCEPT !.op = "Namespace", !.arg = name, !.found = l.found,
                     !.out = IF l.found THEN <<h[l.ptr].tmpls>> ELSE <<>>]

\* the result of Namespaces.ExecuteNamespace(w, path, data); out is what w
\* received.  Template.ExecuteTemplate fails when the set defines no
\* template index+ext and otherwise renders from the set.
ExecuteRet(nss, h, path) ==
    LET l == Lookup(nss, path)
    IN IF ~l.found
       THEN [NoRet EXCEPT !.op = "ExecuteNamespace", !.arg = path, !.err = "ErrNotFound"]
       ELSE [NoRet EXCEPT !.op = "ExecuteNamespace", !.arg = path, !.found = TRUE,
                          !.err = IF IndexName \in DOMAIN h[l.ptr].tmpls THEN "ok" ELSE "engine",
                          !.out = IF IndexName \in DOMAIN h[l.ptr].tmpls
                                  THEN <<h[l.ptr].tmpls>> ELSE <<>>]

\* Template.ExecuteTemplate marks the set it is called on as executed
ExecuteHeap(nss, h, path) ==
    LET l == Lookup(nss, path)
    IN IF l.found THEN [h EXCEPT ![l.ptr].escaped = TRUE] ELSE h

\* the result of Namespaces.DefinedNamespaces(), the order left open
DefinedRet(nss) == [NoRet EXCEPT !.op = "DefinedNamespaces", !.keys = DOMAIN nss]

\* Namespaces.Namespace(name), the whole call under ns.mu
Namespace(name) ==
    /\ phase = "run"
    /\ mu = FREE
    /\ ret' = NamespaceRet(namespaces, heap, name)
    /\ UNCHANGED <<tree, phase, namespaces, heap, built, threads>>

\* Namespaces.ExecuteNamespace(w, path, data), the whole call under ns.mu
ExecuteNamespace(path) ==
    /\ phase = "run"
    /\ mu = FREE
    /\ ret' = ExecuteRet(namespaces, heap, path)
    /\ heap' = ExecuteHeap(namespaces, heap, path)
    /\ UNCHANGED <<tree, phase, namespaces, built, threads>>

\* Namespaces.DefinedNamespaces(), the whole call under ns.mu
DefinedNamespaces ==
    /\ phase = "run"
    /\ mu = FREE
    /\ ret' = DefinedRet(namespaces)
    /\ UNCHANGED <<tree, phase, namespaces, heap, built, threads>>

\* One registry over every tree of up to MaxFiles files: the tree is laid
\* out, then the registry is built and rebuilt.
Next ==
    \/ \E i \in 1..Len(DirOrder) : Mkdir(i)
    \/ \E d \in dirs, n \in FileNames : \E k \in KindsOf(n) : WriteFile(d, n, k)
    \/ New
    \/ \E root \in LocalRoots : ParseRoot(root)
    \/ \E c \in FSCalls : ParseRootFS(c[1], c[2])

Spec == Init /\ [][Next]_vars

\* The tree of the README and the tests (a layout in the top directory, a
\* page that fills its block, a page below it, a directory of assets), and
\* a tree with a file the engine rejects.
ScenarioTrees ==
    { [dirs |-> {<<>>, << <<"a">> >>, << <<"b">> >>, << <<"a">>, <<"a">> >>},
       files |-> { [dir |-> <<>>, name |-> FileH, kind |-> "body"],
                   [dir |-> <<>>, name |-> FileI, kind |-> "block"],
                   [dir |-> << <<"a">> >>, name |-> FileI, kind |-> "define"],
                   [dir |-> << <<"a">>, <<"a">> >>, name |-> FileH, kind |-> "body"],
                   [dir |-> << <<"b">> >>, name |-> FileN, kind |-> "body"] }],
      [dirs |-> {<<>>, << <<"a">> >>},
       files |-> { [dir |-> <<>>, name |-> FileI, kind |-> "body"],
                   [dir |-> << <<"a">> >>, name |-> FileH, kind |-> "bad"] }] }

InitQuery ==
    /\ \E t \in ScenarioTrees : dirs = t.dirs /\ files = t.files
    /\ phase = "run"
    /\ InitRegistry

\* One registry over a given tree, built, rebuilt and queried.
NextQuery ==
    \/ \E root \in LocalRoots : ParseRoot(root)
    \/ \E c \in FSCalls : ParseRootFS(c[1], c[2])
    \/ \E name \in QueryPaths : Namespace(name)
    \/ \E path \in QueryPaths : ExecuteNamespace(path)
    \/ DefinedNamespaces

SpecQuery == InitQuery /\ [][NextQuery]_vars

----------------------------------------------------------------------------
(* Callers on several threads.  Each public method is taken step by step:  *)
(* ns.mu.Lock(), the body, and the deferred ns.mu.Unlock() at the return.  *)
(* A build walks the tree and makes its table writes one at a time, in the *)
(* order the walk makes them; a query reads the table in one step.         *)

\* the methods that open with ns.mu.Lock(); defer ns.mu.Unlock(), as they
\* were when ExecuteNamespace took no lock
EarlierLockingOps == {"ParseRoot", "ParseRootFS", "Namespace", "DefinedNamespaces"}

\* the methods that open with ns.mu.Lock(); defer ns.mu.Unlock()
LockingOps == {"ParseRoot", "ParseRootFS", "Namespace", "ExecuteNamespace", "DefinedNamespaces"}

Queries == {"Namespace", "ExecuteNamespace", "DefinedNamespaces"}

\* the calls the threads make: ParseRoot("t/"), ParseRootFS(fsys, "."),
\* Namespace("/a"), ExecuteNamespace(w, "/a", nil), DefinedNamespaces()
ConcCalls ==
    { [op |-> "ParseRoot", arg |-> <<TOP, E>>, err |-> "ok", trace |-> <<>>],
      [op |-> "ParseRootFS", arg |-> <<Dot>>, err |-> "ok", trace |-> <<>>],
      [op |-> "Namespace", arg |-> <<E, <<"a">>>>, err |-> "ok", trace |-> <<>>],
      [op |-> "ExecuteNamespace", arg |-> <<E, <<"a">>>>, err |-> "ok", trace |-> <<>>],
      [op |-> "DefinedNamespaces", arg |-> EmptyStr, err |-> "ok", trace |-> <<>>] }

\* a thread enters a public method
Call(t, c) ==
    /\ pc[t] = "idle"
    /\ pc' = [pc EXCEPT ![t] = "lock"]
    /\ call' = [call EXCEPT ![t] = c]
    /\ UNCHANGED <<tree, phase, namespaces, heap, ret, built, mu, pending>>

\* ns.mu.Lock(): blocks until the mutex is free
Lock(t) ==
    /\ pc[t] = "lock"
    /\ IF call[t].op \in LockingOps THEN mu = FREE /\ mu' = t ELSE mu' = mu
    /\ pc' = [pc EXCEPT ![t] = IF call[t].op \in Builds THEN "walk" ELSE "read"]
    /\ UNCHANGED <<tree, phase, namespaces, heap, ret, built, call, pending>>

\* the walk of a build up to its table writes: the template sets it makes
\* are on the heap, the writes ns.namespaces[nsname] = tmpl are still to come
Walk(t) ==
    /\ pc[t] = "walk"
    /\ LET r == IF call[t].op = "ParseRoot"
                THEN WalkRoot(heap, namespaces, call[t].arg)
                ELSE WalkRootFS(heap, namespaces, TRUE, call[t].arg)
       IN /\ heap' = r.heap
          /\ pending' = [pending EXCEPT ![t] = r.log]
          /\ call' = [call EXCEPT ![t].err = r.err, ![t].trace = r.trace]
          /\ pc' = [pc EXCEPT ![t] = IF Len(r.log) = 0 THEN "unlock" ELSE "write"]
    /\ UNCHANGED <<tree, phase, namespaces, ret, built, mu>>

\* ns.namespaces[nsname] = tmpl, the next write of the walk
Write(t) ==
    /\ pc[t] \in {"write", "writing"}
    /\ namespaces' = Register(namespaces, Head(pending[t])[1], Head(pending[t])[2])
    /\ pending' = [pending EXCEPT ![t] = Tail(pending[t])]
    /\ pc' = [pc EXCEPT ![t] = IF Len(pending[t]) = 1 THEN "unlock" ELSE "writing"]
    /\ UNCHANGED <<tree, phase, heap, ret, built, mu, call>>

\* the body of a query: its read of ns.namespaces and what it does with it
Read(t) ==
    /\ pc[t] = "read"
    /\ ret' = IF call[t].op = "Namespace" THEN NamespaceRet(namespaces, heap, call[t].arg)
              ELSE IF call[t].op = "ExecuteNamespace"
              THEN ExecuteRet(namespaces, heap, call[t].arg)
              ELSE DefinedRet(namespaces)
    /\ heap' = IF call[t].op = "ExecuteNamespace"
               THEN ExecuteHeap(namespaces, heap, call[t].arg) ELSE heap
    /\ pc' = [pc EXCEPT ![t] = "unlock"]
    /\ UNCHANGED <<tree, phase, namespaces, built, mu, call, pending>>

\* the bug of unlocking at the end of the body and not by defer: a build
\* that returns an error keeps the mutex
UnlockAtEnd(t) ==
    /\ pc[t] = "unlock"
    /\ mu' = IF call[t].op \in LockingOps /\ call[t].err = "ok" THEN FREE ELSE mu
    /\ pc' = [pc EXCEPT ![t] = "idle"]
    /\ call' = [call EXCEPT ![t] = Idle]
    /\ IF call[t].op \in Builds
       THEN LET c == Canon(namespaces, heap)
                d == IF call[t].op = "ParseRoot" THEN OsDir(Clean(call[t].arg))
                     ELSE FsDir(Clean(call[t].arg))
            IN /\ namespaces' = c.ns
               /\ heap' = c.heap
               /\ built' = Built(call[t].op, d, TRUE, call[t].err, call[t].trace)
               /\ ret' = [NoRet EXCEPT !.op = call[t].op, !.err = call[t].err]
       ELSE UNCHANGED <<namespaces, heap, built, ret>>
    /\ UNCHANGED <<tree, phase, pending>>

\* the return of the method and its deferred ns.mu.Unlock()
Unlock(t) ==
    /\ pc[t] = "unlock"
    /\ mu' = IF call[t].op \in LockingOps THEN FREE ELSE mu
    /\ pc' = [pc EXCEPT ![t] = "idle"]
    /\ call' = [call EXCEPT ![t] = Idle]
    /\ IF call[t].op \in Builds
       THEN LET c == Canon(namespaces, heap)
                d == IF call[t].op = "ParseRoot" THEN OsDir(Clean(call[t].arg))
                     ELSE FsDir(Clean(call[t].arg))
            IN /\ namespaces' = c.ns
               /\ heap' = c.heap
               /\ built' = Built(call[t].op, d, TRUE, call[t].err, call[t].trace)
               /\ ret' = [NoRet EXCEPT !.op = call[t].op, !.err = call[t].err]
       ELSE UNCHANGED <<namespaces, heap, built, ret>>
    /\ UNCHANGED <<tree, phase, pending>>

InitConc == InitQuery

\* One registry over a given tree, called from the threads at once.
NextConc ==
    \/ \E t \in Threads : \E c \in ConcCalls : Call(t, c)
    \/ \E t \in Threads : Lock(t)
    \/ \E t \in Threads : Walk(t)
    \/ \E t \in Threads : Write(t)
    \/ \E t \in Threads : Read(t)
    \/ \E t \in Threads : Unlock(t)

SpecConc == InitConc /\ [][NextConc]_vars

\* The scheduler runs every thread that can take a step of its own, and
\* sync.Mutex hands the mutex to a goroutine that has waited for it
\* (starvation mode), so a thread that waits in Lock gets the mutex once
\* it is free again and again.  No thread has to make a call.  The walk is
\* a recursion over a finite tree and ends: Walk(t) is the one step that
\* takes thread t out of "walk", and Walked(t) tells it by pc alone.
Walked(t) ==
    /\ pc[t] = "walk"
    /\ \E x \in {"write", "unlock"} : pc' = [pc EXCEPT ![t] = x]

Fairness ==
    \A t \in Threads :
        /\ SF_vars(Lock(t))
        /\ WF_pc(Walked(t))
        /\ WF_vars(Write(t))
        /\ WF_vars(Read(t))
        /\ WF_vars(Unlock(t))

SpecLive == InitConc /\ [][NextConc]_vars /\ Fairness

----------------------------------------------------------------------------
(* What the claims speak of. *)

IsPrefix(a, d) == Len(a) <= Len(d) /\ SubSeq(d, 1, Len(a)) = a

\* the directories reachable from directory r
Below(r) == {d \in dirs : IsPrefix(r, d)}

\* the directories from a (exclusive) down to d (inclusive)
Between(a, d) == {x \in dirs : IsPrefix(a, x) /\ IsPrefix(x, d) /\ x # a}

\* the namespace path of directory d in a build rooted at r: "/" for r
\* itself, else "/" and the names from r to d joined by "/"
KeyOf(r, d) == IF d = r THEN <<E, E>> ELSE <<E>> \o SubSeq(d, Len(r) + 1, Len(d))

BuiltOk == built.op \in Builds /\ built.err = "ok"

\* the templates of the namespace of directory d after the last build
NsOf(d) == heap[namespaces[KeyOf(built.root, d)]].tmpls

\* the files of directory d that carry the configured extension
TemplateFiles(d) == {f \in files : f.dir = d /\ f.name \in {FileH, FileI}}

\* the name under which a variant files the top-level body of file f:
\* ParseFiles names it by the file, Parse by the set (index+ext)
BodyName(op, f) == IF op = "ParseRoot" THEN f.name ELSE IndexName

\* the template names that the files of d give a definition (a non-empty tree)
Defines(op, d) ==
    {BodyName(op, f) : f \in {g \in TemplateFiles(d) : g.kind \in {"body", "block"}}}
    \cup {BlockName : f \in {g \in TemplateFiles(d) : g.kind \in {"define", "block"}}}

\* the template names that the files of d mention at all
Mentions(op, d) ==
    {BodyName(op, f) : f \in TemplateFiles(d)}
    \cup {BlockName : f \in {g \in TemplateFiles(d) : g.kind \in {"define", "block"}}}

\* the directory whose file a definition comes from
Origin(def) == def[1]

(* C1: after a successful ParseRoot or ParseRootFS on a registry whose     *)
(* table is empty, the keys of the table are exactly the namespace paths   *)
(* of the directories reachable from the root: "/" for the root whatever   *)
(* the root argument, "/"-joined names for the others, and nothing else.   *)
C1_KeysAreDirectories ==
    [][(DOMAIN namespaces = {} /\ built'.op \in Builds /\ built'.err = "ok")
        => DOMAIN namespaces' = {KeyOf(built'.root, d) : d \in {x \in dirs : IsPrefix(built'.root, x)}}]_vars

\* a tree of four directories and two files was built on an empty table
C1_Witness ==
    /\ BuiltOk
    /\ built.root = <<>>
    /\ Cardinality(dirs) = 4
    /\ Cardinality(files) = 2
    /\ DOMAIN namespaces = {<<E, E>>, <<E, <<"a">>>>, <<E, <<"b">>>>, <<E, <<"a">>, <<"a">>>>}

(* C2: inheritance.  After a successful build, every template name that a  *)
(* file of a directory A defines is in the namespace of every directory D  *)
(* below A, and where no directory from A down to D defines it again, D    *)
(* holds the definition that A holds.                                      *)
C2_Inheritance ==
    BuiltOk =>
        \A A \in Below(built.root) : \A D \in Below(A) : \A t \in Defines(built.op, A) :
            /\ KeyOf(built.root, D) \in DOMAIN namespaces
            /\ t \in DOMAIN NsOf(D)
            /\ (\A X \in Between(A, D) : t \notin Defines(built.op, X)) => NsOf(D)[t] = NsOf(A)[t]

\* a grandchild holds a definition made two levels above it
C2_Witness ==
    /\ BuiltOk
    /\ built.root = <<>>
    /\ << <<"a">>, <<"a">> >> \in dirs
    /\ \E t \in Defines(built.op, <<>>) :
          /\ t \in DOMAIN NsOf(<< <<"a">>, <<"a">> >>)
          /\ Origin(NsOf(<< <<"a">>, <<"a">> >>)[t]) = <<>>

C4_Isolation ==
    BuiltOk =>
        \A N \in Below(built.root) : \A t \in DOMAIN NsOf(N) :
            \E X \in Below(built.root) : IsPrefix(X, N) /\ t \in Mentions(built.op, X)

\* two sibling directories each define a name, and neither holds the other's
C4_Witness ==
    /\ BuiltOk
    /\ built.root = <<>>
    /\ Defines(built.op, << <<"a">> >>) # {}
    /\ Defines(built.op, << <<"b">> >>) # {}
    /\ Defines(built.op, << <<"a">> >>) \cap DOMAIN NsOf(<< <<"b">> >>) = {}
    /\ Defines(built.op, << <<"b">> >>) \cap DOMAIN NsOf(<< <<"a">> >>) = {}

(* C5: a ParseRoot or ParseRootFS call that returns an error leaves the    *)
(* namespace table as it was before the call: no key added, no key bound   *)
(* to another template set.                                                *)
C5_FailedBuildLeavesTable ==
    [][(ret'.op \in Builds /\ built'.err # "ok")
        => View(namespaces', heap') = View(namespaces, heap)]_vars

(* C6: after a successful build the keys of the table are exactly the      *)
(* namespace paths of the directories of the tree that build saw, however  *)
(* many builds went before.                                                *)
C6_TableReplacedWholesale ==
    BuiltOk => DOMAIN namespaces = {KeyOf(built.root, d) : d \in Below(built.root)}

(* C9: building a tree with ParseRoot and then with ParseRootFS yields the *)
(* same table: the same keys, and under every key the same template names  *)
(* with the same definitions.                                              *)
C9_WalkersAgree ==
    [][(/\ BuiltOk /\ built.op = "ParseRoot"
        /\ ret'.op = "ParseRootFS" /\ built'.err = "ok" /\ built'.root = built.root)
        => View(namespaces', heap') = View(namespaces, heap)]_vars

(* C7: with several threads calling ParseRoot, ParseRootFS, Namespace,     *)
(* ExecuteNamespace and DefinedNamespaces on one registry, every read of   *)
(* the namespace table is made by the thread that holds ns.mu, no read is  *)
(* made while another thread's build is between its first and its last     *)
(* table write (so a query sees the table of before the build or of after  *)
(* it), and no build writes the table while another build is between its   *)
(* first and its last write.                                               *)
MidWrite(u) == pc[u] = "writing"

TableRead(t) == pc[t] = "read" /\ pc'[t] = "unlock"

TableWrite(t) == pc[t] \in {"write", "writing"} /\ pending'[t] # pending[t]

C7_NoPartialVisibility ==
    [][\A t \in Threads :
         /\ TableRead(t) => mu = t /\ \A u \in Threads \ {t} : ~MidWrite(u)
         /\ TableWrite(t) => mu = t /\ \A u \in Threads \ {t} : ~MidWrite(u)]_vars

\* a build has made its first table write and not its last, another thread
\* is in a query and waits for ns.mu, and the query before it was answered
C7_Witness ==
    \E t, u \in Threads :
        /\ t # u
        /\ MidWrite(u)
        /\ pc[t] = "lock" /\ call[t].op \in Queries
        /\ ret.op \in Queries
        /\ DOMAIN namespaces # {}

(* C8: ExecuteNamespace on a path that is no key of the table returns      *)
(* ErrNotFound, writes nothing, and leaves the table and its template sets *)
(* as they were.                                                           *)
C8_ExecuteUnregistered ==
    [][(ret'.op = "ExecuteNamespace" /\ ret'.arg \notin DOMAIN namespaces)
        => /\ ret'.err = "ErrNotFound"
           /\ ret'.out = <<>>
           /\ namespaces' = namespaces
           /\ heap' = heap]_vars

\* "/missing" was executed on a table that holds "/" and "/a"
C8_Witness ==
    /\ ret.op = "ExecuteNamespace"
    /\ ret.arg = <<E, <<"m">>>>
    /\ ret.err = "ErrNotFound"
    /\ {<<E, E>>, <<E, <<"a">>>>} \subseteq DOMAIN namespaces

(* C10: a build call that repeats the successful build call before it, the *)
(* tree unchanged, succeeds and leaves every key with the same template    *)
(* names and definitions, whatever was queried or executed in between.     *)
C10_RebuildIdempotent ==
    [][(ret'.op \in Builds /\ built'.again)
        => /\ built'.err = "ok"
           /\ View(namespaces', heap') = View(namespaces, heap)]_vars

\* a build was repeated on a table of four namespaces
C10_Witness ==
    /\ built.again
    /\ BuiltOk
    /\ Cardinality(DOMAIN namespaces) = 4
    /\ \A k \in DOMAIN namespaces : ~heap[namespaces[k]].escaped

(* C11: a build aborts on its first failure.  The call returns an error    *)
(* exactly when the last thing its walk did was a step that fails (a       *)
(* directory that cannot be opened or listed, a file the engine rejects);  *)
(* nothing follows a failing step, so no later file is parsed and no later *)
(* directory is visited or registered; no step is made twice; a directory  *)
(* with a failing step is not registered by the call; and the keys the     *)
(* call writes are those of the directories its walk registered.           *)
Fails(b, e) ==
    \/ e[1] = "ReadDir" /\ (e[2] = NoDir \/ ~b.listable)
    \/ e[1] = "Parse" /\ KindOf(e[2], e[3]) = "bad"

Registered(tr) == {i \in 1..Len(tr) : tr[i][1] = "Register"}

AbortsOnFirstFailure(b) ==
    LET tr == b.trace
    IN /\ (b.err # "ok") <=> (Len(tr) > 0 /\ Fails(b, tr[Len(tr)]))
       /\ \A i \in 1..Len(tr) : Fails(b, tr[i]) => i = Len(tr)
       /\ \A i, j \in 1..Len(tr) : i < j => tr[i] # tr[j]
       /\ \A i \in Registered(tr) : \A j \in 1..Len(tr) : Fails(b, tr[j]) => tr[j][2] # tr[i][2]

C11_AbortOnFirstFailure ==
    [][ret'.op \in Builds =>
         /\ AbortsOnFirstFailure(built')
         /\ DOMAIN namespaces' =
                DOMAIN namespaces \cup {built'.trace[i][3] : i \in Registered(built'.trace)}]_vars

\* a build failed on a file after it had registered a directory, and left a
\* matching file of the same directory unparsed and a directory below its
\* root unvisited
C11_Witness ==
    LET tr == built.trace
    IN /\ built.op \in Builds /\ built.err # "ok"
       /\ Registered(tr) # {}
       /\ tr[Len(tr)][1] = "Parse"
       /\ \E f \in files :
            /\ f.dir = tr[Len(tr)][2] /\ Match(ext, f.name)
            /\ \A i \in 1..Len(tr) : tr[i] # <<"Parse", f.dir, f.name>>
       /\ \E d \in Below(built.root) : \A i \in 1..Len(tr) : tr[i][2] # d

(* C12: the order of a walk.  Before a directory is registered, every file *)
(* of it that carries the extension has been parsed, and none is parsed    *)
(* after; a directory is opened or registered only after every directory   *)
(* above it, up to the root of the build, has been registered; and after a *)
(* successful build the namespace of a subdirectory holds every template   *)
(* name that the files of its parent mention, although ReadDir lists the   *)
(* subdirectory before those files.                                        *)
Parent(d) == SubSeq(d, 1, Len(d) - 1)

WalkOrdered(b) ==
    LET tr == b.trace
    IN /\ \A i \in Registered(tr) :
            /\ \A f \in TemplateFiles(tr[i][2]) :
                   \E j \in 1..(i - 1) : tr[j] = <<"Parse", f.dir, f.name>>
            /\ \A j \in 1..Len(tr) : (tr[j][1] = "Parse" /\ tr[j][2] = tr[i][2]) => j < i
       /\ \A j \in 1..Len(tr) : \A d \in Below(b.root) :
            (IsPrefix(d, tr[j][2]) /\ d # tr[j][2])
                => \E i \in 1..(j - 1) : tr[i][1] = "Register" /\ tr[i][2] = d

C12_WalkOrdering ==
    /\ built.op \in Builds => WalkOrdered(built)
    /\ BuiltOk => \A d \in Below(built.root) \ {built.root} :
                      Mentions(built.op, Parent(d)) \subseteq DOMAIN NsOf(d)

\* a successful build of a directory that holds a file and, listed before
\* it, a subdirectory: the file was parsed before the subdirectory was
\* opened, and the subdirectory holds the file's template
C12_Witness ==
    /\ BuiltOk
    /\ built.root = <<>>
    /\ << <<"a">> >> \in dirs
    /\ \E f \in TemplateFiles(<<>>) :
          /\ f.kind = "body"
          /\ BodyName(built.op, f) \in DOMAIN NsOf(<< <<"a">> >>)
          /\ Origin(NsOf(<< <<"a">> >>)[BodyName(built.op, f)]) = <<>>
          /\ \E i, j \in 1..Len(built.trace) :
                /\ i < j
                /\ built.trace[i] = <<"Parse", <<>>, f.name>>
                /\ built.trace[j] = <<"ReadDir", << <<"a">> >>>>

(* C13: in every state of a registry, whatever builds succeeded or failed  *)
(* and whatever was queried, the table is empty or has the key "/", and    *)
(* for every other key the path without its last segment is a key too.     *)
ParentKey(k) == IF Len(k) = 2 THEN ROOT ELSE SubSeq(k, 1, Len(k) - 1)

C13_PrefixClosed ==
    /\ DOMAIN namespaces = {} \/ ROOT \in DOMAIN namespaces
    /\ \A k \in DOMAIN namespaces \ {ROOT} : ParentKey(k) \in DOMAIN namespaces

\* a table with a key two levels below "/", after a build that failed and
\* a query that followed it
C13_Witness ==
    /\ built.op \in Builds /\ built.err # "ok"
    /\ ret.op \in Queries
    /\ \E k \in DOMAIN namespaces : Len(k) = 3 /\ ParentKey(k) # ROOT

(* C14: the mutex is held only by a thread that is inside a call, between  *)
(* its Lock and its return, so every return, also that of a failed build   *)
(* and that of ExecuteNamespace on an unregistered path, has released it;  *)
(* and under fair scheduling every call a thread has made returns.         *)
InCall(t) == pc[t] \in {"walk", "write", "writing", "read", "unlock"}

C14_LockReleasedAndProgress ==
    /\ [](\A t \in Threads : mu = t => InCall(t))
    /\ \A t \in Threads : (pc[t] # "idle") ~> (pc[t] = "idle")

\* after a build that failed and an ExecuteNamespace that found no
\* namespace have returned, a thread holds the mutex in a call of its own
\* while the other waits for it
C14_Witness ==
    \E t, u \in Threads :
        /\ t # u
        /\ built.op \in Builds /\ built.err # "ok"
        /\ ret.op = "ExecuteNamespace" /\ ret.err = "ErrNotFound"
        /\ mu = t /\ pc[t] = "walk"
        /\ pc[u] = "lock"
====
